---- MODULE Spec2Model ----
(***************************************************************************)
(* A model of src/main.py: the ATS resume evaluation handler               *)
(* ats_optimize_resume, the process-wide GEMINI_CONFIGURED gate, and the   *)
(* three calls it makes on the AI service (upload, generate, delete).      *)
(*                                                                         *)
(* Python values are records [t |-> <type name>, v |-> <payload>].  A str  *)
(* is a sequence of one-character strings, so that startswith, strip,      *)
(* replace, slicing and json.loads are computed character by character.    *)
(***************************************************************************)
EXTENDS Integers, Sequences, FiniteSets, TLC

\* ------------------------------------------------------------------ bounds
\* Number of requests that may be in flight at once (SpecConcurrent).
NReq == 2
\* Length of the filler of the long unparseable response; the response is
\* longer than RAW_EXCERPT_LEN so that the [:200] slice really truncates.
FillerLen == 210

\* ------------------------------------------------------------- evaluation
\* The element of a one-element set.  In The({F(x) : x \in {e}}) the value of e
\* is computed once, however often F uses x.
The(S) == CHOOSE x \in S : TRUE

\* The least k in lo..hi with P(k); hi + 1 when there is none.
First(P(_), lo, hi) ==
    IF \E k \in lo..hi : P(k)
    THEN CHOOSE k \in lo..hi : P(k) /\ \A j \in lo..(k - 1) : ~P(j)
    ELSE hi + 1

\* The greatest k in lo..hi with P(k); lo - 1 when there is none.
Last(P(_), lo, hi) ==
    IF \E k \in lo..hi : P(k)
    THEN CHOOSE k \in lo..hi : P(k) /\ \A j \in (k + 1)..hi : ~P(j)
    ELSE lo - 1

\* ------------------------------------------------------- Python str values
\* The backtick cannot be written in a string literal: one symbol stands for
\* the single character U+0060.
BT == "BACKTICK"

\* The characters of a string literal, as a sequence.
Chars(s) == [i \in 1..Len(s) |-> SubSeq(s, i, i)]

\* A sequence of n copies of character c.
Repeat(c, n) == [i \in 1..n |-> c]

Min(a, b) == IF a < b THEN a ELSE b

\* s[:n]
SliceTo(s, n) == SubSeq(s, 1, Min(n, Len(s)))

\* s.startswith(p, at)  (at counted from 1)
StartsWithAt(s, p, at) ==
    /\ at + Len(p) - 1 <= Len(s)
    /\ \A k \in 1..Len(p) : s[at + k - 1] = p[k]

\* s.startswith(p)
StartsWith(s, p) == StartsWithAt(s, p, 1)

\* sub in s
Contains(s, sub) == \E at \in 1..(Len(s) + 1) : StartsWithAt(s, sub, at)

\* The whitespace of the modelled alphabet (str.strip() and the JSON scanner
\* agree on these four).
WHITESPACE == {" ", "\t", "\n", "\r"}

\* First position >= i of s that holds no whitespace (Len(s)+1 when none).
SkipWs(s, i) ==
    LET NotWs(k) == s[k] \notin WHITESPACE
    IN  First(NotWs, i, Len(s))

\* s.strip()
Strip(s) ==
    The({LET NotWs(k) == str[k] \notin WHITESPACE
         IN  SubSeq(str, First(NotWs, 1, Len(str)), Last(NotWs, 1, Len(str)))
         : str \in {s}})

RECURSIVE RemoveFrom(_, _, _)
\* s[i:].replace(old, ""): occurrences are found left to right and do not
\* overlap; the result is not scanned again.
RemoveFrom(s, old, i) ==
    LET Occurs(k) == StartsWithAt(s, old, k)
    IN  The({IF at > Len(s) THEN SubSeq(s, i, Len(s))
             ELSE SubSeq(s, i, at - 1) \o RemoveFrom(s, old, at + Len(old))
             : at \in {First(Occurs, i, Len(s))}})

\* s.replace(old, "")
Remove(s, old) == The({RemoveFrom(str, old, 1) : str \in {s}})

\* ---------------------------------------------------------- Python values
PyNone == [t |-> "NoneType", v |-> 0]
PyStr(s) == [t |-> "str", v |-> s]
PyInt(n) == [t |-> "int", v |-> n]
\* A float keeps the lexeme it was read from; no arithmetic is done on it.
PyFloat(lexeme) == [t |-> "float", v |-> lexeme]
PyBool(b) == [t |-> "bool", v |-> b]
PyList(items) == [t |-> "list", v |-> items]
\* A dict is the sequence of its <<key, value>> pairs in insertion order.
PyDict(pairs) == [t |-> "dict", v |-> pairs]
\* The File object files.upload returns; v is its name on the service.
PyFile(name) == [t |-> "File", v |-> name]

\* bool(x): the truth value Python's `if x` tests.
Truthy(x) ==
    CASE x.t = "NoneType" -> FALSE
      [] x.t = "bool" -> x.v
      [] x.t = "int" -> x.v # 0
      [] x.t \in {"str", "list", "dict"} -> Len(x.v) > 0
      [] OTHER -> TRUE

\* isinstance(x, int): bool is a subclass of int.
IsInstanceInt(x) == x.t \in {"int", "bool"}

\* The number an int (or bool) stands for in a comparison.
IntValue(x) == IF x.t = "bool" THEN (IF x.v THEN 1 ELSE 0) ELSE x.v

\* ----------------------------------------------------- json.loads (CPython)
DIGITS == {"0", "1", "2", "3", "4", "5", "6", "7", "8", "9"}

DigitVal(c) ==
    CASE c = "0" -> 0 [] c = "1" -> 1 [] c = "2" -> 2 [] c = "3" -> 3
      [] c = "4" -> 4 [] c = "5" -> 5 [] c = "6" -> 6 [] c = "7" -> 7
      [] c = "8" -> 8 [] c = "9" -> 9

\* Characters below U+0020 of the modelled alphabet: not allowed raw inside a
\* JSON string (strict mode).
CONTROL_CHARS == {"\t", "\n", "\r", "BACKSPACE", "FORMFEED"}

\* The character a backslash escape stands for (\uXXXX is outside the modelled
\* alphabet and is reported as a decode error).
BACKSLASH(c) ==
    CASE c = "\"" -> "\"" [] c = "\\" -> "\\" [] c = "/" -> "/"
      [] c = "b" -> "BACKSPACE" [] c = "f" -> "FORMFEED"
      [] c = "n" -> "\n" [] c = "r" -> "\r" [] c = "t" -> "\t"
      [] OTHER -> "INVALID"

\* A scan result: ok, the value, and the position after it.
Scanned(val, end) == [ok |-> TRUE, val |-> val, end |-> end]
\* The scan raised JSONDecodeError at position at.
DecodeError(at) == [ok |-> FALSE, val |-> PyNone, end |-> at]

\* Position after the run of digits starting at i.
ScanDigits(s, i) ==
    LET NotDigit(k) == s[k] \notin DIGITS
    IN  First(NotDigit, i, Len(s))

RECURSIVE DigitsValue(_, _, _, _)
\* The number written by the digits s[i..j-1], after the digits already in acc.
DigitsValue(s, i, j, acc) ==
    IF i >= j THEN acc ELSE DigitsValue(s, i + 1, j, acc * 10 + DigitVal(s[i]))

\* The groups of NUMBER_RE matched from the end of the integer part on:
\* (\.\d+)? and ([eE][-+]?\d+)?; an int when both are empty, else a float.
NumberFrom(s, i, d0, intEnd) ==
    LET neg == s[i] = "-"
        fracEnd == IF intEnd <= Len(s) /\ s[intEnd] = "."
                      /\ ScanDigits(s, intEnd + 1) > intEnd + 1
                   THEN ScanDigits(s, intEnd + 1) ELSE intEnd
    IN  The({LET e0 == IF fe + 1 <= Len(s) /\ s[fe + 1] \in {"+", "-"}
                       THEN fe + 2 ELSE fe + 1
                 expEnd == IF fe <= Len(s) /\ s[fe] \in {"e", "E"}
                              /\ ScanDigits(s, e0) > e0
                           THEN ScanDigits(s, e0) ELSE fe
             IN  IF expEnd > intEnd
                 THEN Scanned(PyFloat(SubSeq(s, i, expEnd - 1)), expEnd)
                 ELSE Scanned(PyInt(IF neg THEN 0 - DigitsValue(s, d0, intEnd, 0)
                                    ELSE DigitsValue(s, d0, intEnd, 0)), intEnd)
             : fe \in {fracEnd}})

\* NUMBER_RE.match(s, i): (-?(?:0|[1-9]\d*))(\.\d+)?([eE][-+]?\d+)?
MatchNumber(s, i) ==
    LET d0 == IF s[i] = "-" THEN i + 1 ELSE i
    IN  The({IF intEnd = d0 THEN DecodeError(i) ELSE NumberFrom(s, i, d0, intEnd)
             : intEnd \in {IF d0 <= Len(s) /\ s[d0] = "0" THEN d0 + 1
                           ELSE ScanDigits(s, d0)}})

RECURSIVE ScanString(_, _, _)
\* py_scanstring: i is the position after the opening quote, or after the
\* last escape; acc holds the characters read so far.
ScanString(s, i, acc) ==
    LET Special(k) == s[k] \in ({"\"", "\\"} \cup CONTROL_CHARS)
    IN  The({IF at > Len(s) THEN DecodeError(at)
             ELSE IF s[at] = "\"" THEN Scanned(PyStr(acc \o SubSeq(s, i, at - 1)), at + 1)
             ELSE IF s[at] = "\\" /\ at + 1 <= Len(s) /\ BACKSLASH(s[at + 1]) # "INVALID"
                  THEN ScanString(s, at + 2,
                                  acc \o SubSeq(s, i, at - 1) \o <<BACKSLASH(s[at + 1])>>)
             ELSE DecodeError(at)
             : at \in {First(Special, i, Len(s))}})

RECURSIVE ScanOnce(_, _)
RECURSIVE JSONObject(_, _, _)
RECURSIVE JSONArray(_, _, _)

\* JSONObject, after a member: "}" ends the object, "," announces another.
ObjectAfterValue(s, key, val, pairs) ==
    IF ~val.ok THEN val
    ELSE The({IF n0 <= Len(s) /\ s[n0] = "}"
              THEN Scanned(PyDict(Append(pairs, <<key.val.v, val.val>>)), n0 + 1)
              ELSE IF n0 <= Len(s) /\ s[n0] = ","
                   THEN JSONObject(s, n0 + 1, Append(pairs, <<key.val.v, val.val>>))
              ELSE DecodeError(n0)
              : n0 \in {SkipWs(s, val.end)}})

\* JSONObject, after a key: ":" and the member's value.
ObjectAfterKey(s, key, pairs) ==
    IF ~key.ok THEN key
    ELSE The({IF ~(c0 <= Len(s) /\ s[c0] = ":") THEN DecodeError(c0)
              ELSE The({ObjectAfterValue(s, key, val, pairs)
                        : val \in {ScanOnce(s, SkipWs(s, c0 + 1))}})
              : c0 \in {SkipWs(s, key.end)}})

\* JSONObject: i is the position after "{" or after a ","; pairs are the
\* members read so far.  "}" is accepted here only for the empty object.
JSONObject(s, i, pairs) ==
    The({IF k0 <= Len(s) /\ s[k0] = "}" /\ Len(pairs) = 0
         THEN Scanned(PyDict(pairs), k0 + 1)
         ELSE IF ~(k0 <= Len(s) /\ s[k0] = "\"") THEN DecodeError(k0)
         ELSE The({ObjectAfterKey(s, key, pairs)
                   : key \in {ScanString(s, k0 + 1, << >>)}})
         : k0 \in {SkipWs(s, i)}})

\* JSONArray, after an item: "]" ends the array, "," announces another.
ArrayAfterValue(s, val, items) ==
    IF ~val.ok THEN val
    ELSE The({IF n0 <= Len(s) /\ s[n0] = "]"
              THEN Scanned(PyList(Append(items, val.val)), n0 + 1)
              ELSE IF n0 <= Len(s) /\ s[n0] = ","
                   THEN JSONArray(s, n0 + 1, Append(items, val.val))
              ELSE DecodeError(n0)
              : n0 \in {SkipWs(s, val.end)}})

\* JSONArray: i is the position after "[" or after a ",".  "]" is accepted
\* here only for the empty array.
JSONArray(s, i, items) ==
    The({IF v0 <= Len(s) /\ s[v0] = "]" /\ Len(items) = 0
         THEN Scanned(PyList(items), v0 + 1)
         ELSE The({ArrayAfterValue(s, val, items) : val \in {ScanOnce(s, v0)}})
         : v0 \in {SkipWs(s, i)}})

\* scan_once: the JSON value that starts at position i.
ScanOnce(s, i) ==
    The({IF at > Len(s) THEN DecodeError(at)
         ELSE IF s[at] = "\"" THEN ScanString(s, at + 1, << >>)
         ELSE IF s[at] = "{" THEN JSONObject(s, at + 1, << >>)
         ELSE IF s[at] = "[" THEN JSONArray(s, at + 1, << >>)
         ELSE IF StartsWithAt(s, Chars("null"), at) THEN Scanned(PyNone, at + 4)
         ELSE IF StartsWithAt(s, Chars("true"), at) THEN Scanned(PyBool(TRUE), at + 4)
         ELSE IF StartsWithAt(s, Chars("false"), at) THEN Scanned(PyBool(FALSE), at + 5)
         ELSE IF MatchNumber(s, at).ok THEN MatchNumber(s, at)
         ELSE IF StartsWithAt(s, Chars("NaN"), at)
              THEN Scanned(PyFloat(Chars("NaN")), at + 3)
         ELSE IF StartsWithAt(s, Chars("Infinity"), at)
              THEN Scanned(PyFloat(Chars("Infinity")), at + 8)
         ELSE IF StartsWithAt(s, Chars("-Infinity"), at)
              THEN Scanned(PyFloat(Chars("-Infinity")), at + 9)
         ELSE DecodeError(at)
         : at \in {i}})

\* json.loads(s): ok with the value, or not ok (JSONDecodeError): leading and
\* trailing whitespace is allowed, anything else after the value is "Extra data".
JsonLoads(s) ==
    The({The({IF ~got.ok THEN got
              ELSE IF SkipWs(str, got.end) # Len(str) + 1
                   THEN DecodeError(SkipWs(str, got.end))
              ELSE got
              : got \in {ScanOnce(str, SkipWs(str, 1))}})
         : str \in {s}})

\* d.get(key, default): a later duplicate of a key has replaced an earlier one.
DictGet(d, key, default) ==
    LET HasKey(j) == d.v[j][1] = key
    IN  The({IF at = 0 THEN default ELSE d.v[at][2]
             : at \in {Last(HasKey, 1, Len(d.v))}})

\* ------------------------------------------------- constants of src/main.py
HTTP_BAD_REQUEST == 400
HTTP_SERVER_ERROR == 500
MOCK_SCORE == 75
DEFAULT_SCORE == 0
MIN_SCORE == 0
MAX_SCORE == 100
PARSE_FAILURE_SCORE == 50
RAW_EXCERPT_LEN == 200

PDF_PREFIX == Chars("application/pdf")
DOCX_PREFIX == Chars("application/vnd.openxmlformats-officedocument.wordprocessingml")
\* The tuple given to startswith.
SUPPORTED_PREFIXES == {PDF_PREFIX, DOCX_PREFIX}

INVALID_FILE_TYPE == Chars("Invalid file type. Please upload a PDF or DOCX.")
\* The first two symbols are the code points of the warning sign.
MOCK_SUGGESTIONS ==
    <<"U+26A0", "U+FE0F">> \o Chars(" MOCK DATA: Missing 'DevOps' and 'Kubernetes'. Add these to your experience section. (API Key not configured.)")
MOCK_MARKER == Chars("MOCK DATA")
NO_SUGGESTIONS == Chars("No detailed suggestions provided by AI.")
PARSE_ERROR_MARKER == Chars("Error: Could not parse structured output from AI. Raw response: ")
ELLIPSIS == Chars("...")
SERVICE_ERROR_PREFIX ==
    Chars("AI Service Error: Failed to process file. Check API keys and Vercel logs. Error: ")
FENCE == <<BT, BT, BT>>
FENCE_JSON == FENCE \o Chars("json")
KEY_MATCH_SCORE == Chars("matchScore")
KEY_SUGGESTIONS == Chars("suggestions")

\* ------------------------------------------------------------- exceptions
\* An exception object: str(e) is msg.
Exc(type, msg) == [type |-> type, msg |-> msg]
NoExc == Exc("none", << >>)

\* x.<attr> on a value whose type has no such attribute.
AttributeError(x, attr) ==
    Exc("AttributeError",
        Chars("'") \o Chars(x.t) \o Chars("' object has no attribute '") \o attr \o Chars("'"))

\* ------------------------------------------ step 6: parse the JSON response
\* The try block of lines 103-111 ran to its end.
Parsed(score, sugg) ==
    [raised |-> FALSE, match_score |-> score, suggestions |-> sugg, exc |-> NoExc]

\* ParseFallback with the excerpt not cut: response.text instead of
\* response.text[:200].
ParseFallbackWholeText(text) ==
    Parsed(PyInt(PARSE_FAILURE_SCORE), PyStr(PARSE_ERROR_MARKER \o text.v \o ELLIPSIS))

\* The handler of lines 113-116 (JSONDecodeError or ValueError was caught).
ParseFallback(text) ==
    Parsed(PyInt(PARSE_FAILURE_SCORE),
           PyStr(PARSE_ERROR_MARKER \o SliceTo(text.v, RAW_EXCERPT_LEN) \o ELLIPSIS))

\* An exception that `except (json.JSONDecodeError, ValueError)` does not catch.
ParseRaised(e) ==
    [raised |-> TRUE, match_score |-> PyNone, suggestions |-> PyNone, exc |-> e]

\* The range and type check of line 110.
ScoreIsInvalid(match_score) ==
    \/ ~IsInstanceInt(match_score)
    \/ IntValue(match_score) < MIN_SCORE
    \/ IntValue(match_score) > MAX_SCORE

\* response.text.strip().replace("```json", "").replace("```", "")
StripFences(text) == Remove(Remove(Strip(text), FENCE_JSON), FENCE)

\* Lines 103-116 on response.text: the match_score and suggestions they leave,
\* or the exception that escapes them.
ParseResponse(text) ==
    IF text.t # "str" THEN ParseRaised(AttributeError(text, Chars("strip")))
    ELSE The({LET ai_result == loaded.val
                  match_score == DictGet(ai_result, KEY_MATCH_SCORE, PyInt(DEFAULT_SCORE))
                  suggestions == DictGet(ai_result, KEY_SUGGESTIONS, PyStr(NO_SUGGESTIONS))
              IN  IF ~loaded.ok THEN ParseFallback(text)
                  ELSE IF ai_result.t # "dict"
                       THEN ParseRaised(AttributeError(ai_result, Chars("get")))
                  ELSE IF ScoreIsInvalid(match_score) THEN ParseFallback(text)
                  ELSE Parsed(match_score, suggestions)
              : loaded \in {JsonLoads(StripFences(text.v))}})

\* --------------------------------------------- the AI model's reply, rendered
\* What generate_content answers is described by a reply: the value (or the
\* prose) the model meant, and how it wrapped it.  RenderReply writes it out as
\* the characters of response.text; the handler only ever sees the characters.
DigitChar(d) == SubSeq("0123456789", d + 1, d + 1)

RECURSIVE NatChars(_)
NatChars(n) ==
    IF n < 10 THEN <<DigitChar(n)>> ELSE NatChars(n \div 10) \o <<DigitChar(n % 10)>>

IntChars(n) == IF n < 0 THEN <<"-">> \o NatChars(0 - n) ELSE NatChars(n)

\* One character of a string, as JSON writes it inside quotes.
EscapeChar(c) ==
    CASE c = "\"" -> <<"\\", "\"">>
      [] c = "\\" -> <<"\\", "\\">>
      [] c = "\n" -> <<"\\", "n">>
      [] c = "\r" -> <<"\\", "r">>
      [] c = "\t" -> <<"\\", "t">>
      [] OTHER -> <<c>>

RECURSIVE EscapeFrom(_, _)
EscapeFrom(s, i) ==
    IF i > Len(s) THEN << >> ELSE EscapeChar(s[i]) \o EscapeFrom(s, i + 1)

QuoteChars(s) == <<"\"">> \o EscapeFrom(s, 1) \o <<"\"">>

RECURSIVE JsonChars(_)
RECURSIVE ItemsChars(_, _)
RECURSIVE PairsChars(_, _)

ItemsChars(items, i) ==
    IF i > Len(items) THEN << >>
    ELSE (IF i > 1 THEN Chars(", ") ELSE << >>) \o JsonChars(items[i])
         \o ItemsChars(items, i + 1)

PairsChars(pairs, i) ==
    IF i > Len(pairs) THEN << >>
    ELSE (IF i > 1 THEN Chars(", ") ELSE << >>) \o QuoteChars(pairs[i][1])
         \o Chars(": ") \o JsonChars(pairs[i][2]) \o PairsChars(pairs, i + 1)

\* The JSON text of a value.
JsonChars(x) ==
    CASE x.t = "NoneType" -> Chars("null")
      [] x.t = "bool" -> (IF x.v THEN Chars("true") ELSE Chars("false"))
      [] x.t = "int" -> IntChars(x.v)
      [] x.t = "float" -> x.v
      [] x.t = "str" -> QuoteChars(x.v)
      [] x.t = "list" -> <<"[">> \o ItemsChars(x.v, 1) \o <<"]">>
      [] x.t = "dict" -> <<"{">> \o PairsChars(x.v, 1) \o <<"}">>

WRAPPERS == {"bare", "fence_json", "fence", "padded"}

\* The body as the model wrapped it: bare, in a markdown code fence with or
\* without the json tag, or between blank space.
Wrap(w, body) ==
    CASE w = "bare" -> body
      [] w = "fence_json" -> FENCE_JSON \o <<"\n">> \o body \o <<"\n">> \o FENCE
      [] w = "fence" -> FENCE \o <<"\n">> \o body \o <<"\n">> \o FENCE
      [] w = "padded" -> Chars(" \n") \o body \o Chars("\n ")

\* A reply that is the JSON text of a value.
JsonReply(w, value) == [kind |-> "json", wrapper |-> w, value |-> value]
\* A reply that is prose (or broken JSON), written as it is.
TextReply(w, chars) == [kind |-> "text", wrapper |-> w, value |-> PyStr(chars)]
\* A response without text (response.text is None).
NoTextReply == [kind |-> "none", wrapper |-> "bare", value |-> PyNone]

\* response.text of a reply.
RenderReply(reply) ==
    CASE reply.kind = "json" -> PyStr(Wrap(reply.wrapper, JsonChars(reply.value)))
      [] reply.kind = "text" -> PyStr(Wrap(reply.wrapper, reply.value.v))
      [] reply.kind = "none" -> PyNone

\* The analysis object the prompt asks for.
Analysis(score, sugg) ==
    PyDict(<< <<KEY_MATCH_SCORE, score>>, <<KEY_SUGGESTIONS, sugg>> >>)

\* ------------------------------------------------------------ the inputs
\* How far beyond [MIN_SCORE, MAX_SCORE] the integer scores tried reach.
Beyond == 2

\* resume_file.content_type: absent, empty, the two supported types, and
\* unsupported ones (one a proper prefix of a supported prefix, one sharing a
\* long prefix with the DOCX type, one differing only in case).
SUPPORTED_TYPES ==
    {PyStr(PDF_PREFIX), PyStr(DOCX_PREFIX \o Chars(".document"))}
UNSUPPORTED_TYPES ==
    {PyStr(Chars("text/plain")), PyStr(Chars("application/pd")),
     PyStr(Chars("application/vnd.openxmlformats-officedocument.spreadsheetml.sheet")),
     PyStr(Chars("Application/PDF"))}
AllContentTypes == {PyNone, PyStr(<< >>)} \cup SUPPORTED_TYPES \cup UNSUPPORTED_TYPES

\* Errors the AI client (or the file read) raises.
AllErrors ==
    {Exc("ServerError", Chars("503 UNAVAILABLE")),
     Exc("ClientError", Chars("401 UNAUTHENTICATED"))}

ScoreInts == ((MIN_SCORE - Beyond)..(MAX_SCORE + Beyond)) \cup {150}
EdgeScoreInts == {MIN_SCORE - 1, MIN_SCORE, 88, MAX_SCORE, MAX_SCORE + 1, 150}
\* matchScore values that are not JSON integers.
OtherScores ==
    {PyStr(Chars("88")), PyFloat(Chars("88.0")), PyFloat(Chars("8.8e1")),
     PyBool(TRUE), PyBool(FALSE), PyNone, PyList(<<PyInt(88)>>)}
PlainSuggestion == Chars("add X")
SuggestionTexts ==
    {PlainSuggestion,
     Chars("- say \"led\"\n- add X"),
     Chars("- run ") \o FENCE \o Chars("kubectl get pods") \o FENCE}
\* JSON values that are not the analysis object asked for.
OtherValues ==
    {PyDict(<< >>),
     PyDict(<< <<KEY_SUGGESTIONS, PyStr(PlainSuggestion)>> >>),
     PyDict(<< <<KEY_MATCH_SCORE, PyInt(88)>> >>),
     Analysis(PyInt(88), PyInt(5)),
     PyList(<<Analysis(PyInt(88), PyStr(PlainSuggestion))>>),
     PyInt(88), PyStr(PlainSuggestion), PyNone, PyBool(TRUE), PyFloat(Chars("88.5"))}
\* Replies that are not JSON at all.
ProseTexts ==
    {<< >>,
     Chars("Sorry, I can't help with that."),
     Chars("Here is the analysis: {\"matchScore\": 88, \"suggestions\": \"add X\"}"),
     Chars("{\"matchScore\": 88, \"suggestions\": \"add"),
     Chars("{'matchScore': 88, 'suggestions': 'add X'}"),
     Chars("The resume ") \o Repeat("x", FillerLen)}

AllReplies ==
    {JsonReply("bare", Analysis(PyInt(n), PyStr(PlainSuggestion))) : n \in ScoreInts}
    \cup {JsonReply(w, Analysis(PyInt(n), PyStr(sg))) :
            w \in WRAPPERS, n \in EdgeScoreInts, sg \in SuggestionTexts}
    \cup {JsonReply(w, Analysis(sc, PyStr(PlainSuggestion))) :
            w \in WRAPPERS, sc \in OtherScores}
    \cup {JsonReply(w, x) : w \in WRAPPERS, x \in OtherValues}
    \cup {TextReply(w, tx) : w \in WRAPPERS, tx \in ProseTexts}
    \cup {NoTextReply}

\* The inputs a run draws from.
AllInputs ==
    [content_types |-> AllContentTypes, replies |-> AllReplies, errors |-> AllErrors]

\* One input per path through the handler, for the runs that interleave
\* several requests.
SampleInputs ==
    [content_types |-> {PyStr(PDF_PREFIX), PyStr(Chars("text/plain"))},
     replies |-> {JsonReply("fence_json", Analysis(PyInt(88), PyStr(PlainSuggestion))),
                  TextReply("bare", Chars("Sorry, I can't help with that.")),
                  JsonReply("bare", PyList(<<PyInt(88)>>))},
     errors |-> {Exc("ServerError", Chars("503 UNAVAILABLE"))}]

\* ------------------------------------------------------------- the state
Requests == 1..NReq

VARIABLES
    GEMINI_CONFIGURED,  \* the process-wide flag set at import (lines 28-35)
    pc,                 \* per request: where its handler invocation stands
    file_mime_type,     \* per request: local of the handler (line 45)
    uploaded_file,      \* per request: local of the handler (lines 59, 67)
    model_reply,        \* per request: what the AI model answered (environment)
    response_text,      \* per request: response.text (line 89)
    match_score,        \* per request: local of the handler
    suggestions,        \* per request: local of the handler
    exc,                \* per request: the exception caught at line 125
    pending,            \* per request: the return value or exception in flight
                        \*   when the finally block runs
    outcome,            \* per request: how the handler invocation ended
    calls,              \* per request: the AI client calls it issued, in order
    file_owner,         \* AI service: file_owner[n] is the request whose upload
                        \*   created the file named n
    service_files       \* AI service: names of the files it currently holds

vars ==
    <<GEMINI_CONFIGURED, pc, file_mime_type, uploaded_file, model_reply,
      response_text, match_score, suggestions, exc, pending, outcome, calls,
      file_owner, service_files>>

\* How a handler invocation ends.
NoOutcome == [kind |-> "none", value |-> NoExc]
\* return {...}
Returned(score, sugg) ==
    [kind |-> "return",
     value |-> [success |-> TRUE, matchScore |-> score, suggestions |-> sugg]]
\* raise HTTPException(status_code=..., detail=...)
HTTPException(status_code, detail) ==
    [kind |-> "HTTPException", value |-> [status_code |-> status_code, detail |-> detail]]
\* An exception no handler of the function caught.
Unhandled(e) == [kind |-> "unhandled", value |-> e]

\* One call on the AI client: the operation, its argument, and the exception
\* it raised (NoExc when it returned).
Call(op, arg, error) == [op |-> op, arg |-> arg, error |-> error]

Init ==
    /\ GEMINI_CONFIGURED \in BOOLEAN
    /\ pc = [r \in Requests |-> "idle"]
    /\ file_mime_type = [r \in Requests |-> PyNone]
    /\ uploaded_file = [r \in Requests |-> PyNone]
    /\ model_reply = [r \in Requests |-> NoTextReply]
    /\ response_text = [r \in Requests |-> PyNone]
    /\ match_score = [r \in Requests |-> PyNone]
    /\ suggestions = [r \in Requests |-> PyNone]
    /\ exc = [r \in Requests |-> NoExc]
    /\ pending = [r \in Requests |-> NoOutcome]
    /\ outcome = [r \in Requests |-> NoOutcome]
    /\ calls = [r \in Requests |-> << >>]
    /\ file_owner = << >>
    /\ service_files = {}

\* ------------------------------------------------------------ the handler
\* file_mime_type.startswith((PDF, DOCX))
HasSupportedPrefix(mime) == \E prefix \in SUPPORTED_PREFIXES : StartsWith(mime, prefix)

\* The condition of line 48.
IsRejected(mime) == Truthy(mime) /\ ~HasSupportedPrefix(mime.v)

\* The lines of the try block raised e: control goes to `except Exception`.
Raise(r, e) ==
    /\ exc' = [exc EXCEPT ![r] = e]
    /\ pc' = [pc EXCEPT ![r] = "except"]

\* A request arrives and the handler is entered (lines 39-45).
Receive(r, inputs) ==
    /\ pc[r] = "idle"
    /\ \E content_type \in inputs.content_types :
          file_mime_type' = [file_mime_type EXCEPT ![r] = content_type]
    /\ pc' = [pc EXCEPT ![r] = "validate"]
    /\ UNCHANGED <<GEMINI_CONFIGURED, uploaded_file, model_reply, response_text,
                   match_score, suggestions, exc, pending, outcome, calls,
                   file_owner, service_files>>

\* Step 3A: the media type check (lines 48-49).
Validate(r) ==
    /\ pc[r] = "validate"
    /\ IF IsRejected(file_mime_type[r])
       THEN /\ outcome' = [outcome EXCEPT
                             ![r] = HTTPException(HTTP_BAD_REQUEST, INVALID_FILE_TYPE)]
            /\ pc' = [pc EXCEPT ![r] = "done"]
       ELSE /\ pc' = [pc EXCEPT ![r] = "configured"]
            /\ UNCHANGED outcome
    /\ UNCHANGED <<GEMINI_CONFIGURED, file_mime_type, uploaded_file, model_reply,
                   response_text, match_score, suggestions, exc, pending, calls,
                   file_owner, service_files>>

\* CheckConfigured with the client construction attempted again by a request
\* that finds the flag unset: the flag may turn on after startup.
CheckConfiguredRetriesClient(r) ==
    /\ pc[r] = "configured"
    /\ \/ /\ ~GEMINI_CONFIGURED
          /\ outcome' = [outcome EXCEPT
                           ![r] = Returned(PyInt(MOCK_SCORE), PyStr(MOCK_SUGGESTIONS))]
          /\ pc' = [pc EXCEPT ![r] = "done"]
          /\ UNCHANGED <<uploaded_file, GEMINI_CONFIGURED>>
       \/ /\ GEMINI_CONFIGURED' = TRUE
          /\ uploaded_file' = [uploaded_file EXCEPT ![r] = PyNone]
          /\ pc' = [pc EXCEPT ![r] = "read"]
          /\ UNCHANGED outcome
    /\ UNCHANGED <<file_mime_type, model_reply, response_text, match_score,
                   suggestions, exc, pending, calls, file_owner, service_files>>

\* Step 3B: the mock short-circuit, or entry into the try block (lines 52-59).
CheckConfigured(r) ==
    /\ pc[r] = "configured"
    /\ IF ~GEMINI_CONFIGURED
       THEN /\ outcome' = [outcome EXCEPT
                             ![r] = Returned(PyInt(MOCK_SCORE), PyStr(MOCK_SUGGESTIONS))]
            /\ pc' = [pc EXCEPT ![r] = "done"]
            /\ UNCHANGED uploaded_file
       ELSE /\ uploaded_file' = [uploaded_file EXCEPT ![r] = PyNone]
            /\ pc' = [pc EXCEPT ![r] = "read"]
            /\ UNCHANGED outcome
    /\ UNCHANGED <<GEMINI_CONFIGURED, file_mime_type, model_reply, response_text,
                   match_score, suggestions, exc, pending, calls, file_owner,
                   service_files>>

\* await resume_file.read() and the buffer (lines 62-63): returns, or raises.
ReadFile(r, inputs) ==
    /\ pc[r] = "read"
    /\ \/ /\ pc' = [pc EXCEPT ![r] = "upload"]
          /\ UNCHANGED exc
       \/ \E e \in inputs.errors : Raise(r, e)
    /\ UNCHANGED <<GEMINI_CONFIGURED, file_mime_type, uploaded_file, model_reply,
                   response_text, match_score, suggestions, pending, outcome, calls,
                   file_owner, service_files>>

\* Upload with uploaded_file kept in one module-level variable that every
\* invocation of the handler reads and writes.
UploadSharesHandle(r, inputs) ==
    /\ pc[r] = "upload"
    /\ \/ LET name == Len(file_owner) + 1
          IN  /\ calls' = [calls EXCEPT
                             ![r] = Append(@, Call("upload", file_mime_type[r], NoExc))]
              /\ file_owner' = Append(file_owner, r)
              /\ service_files' = service_files \cup {name}
              /\ uploaded_file' = [q \in Requests |-> PyFile(name)]
              /\ pc' = [pc EXCEPT ![r] = "contents"]
              /\ UNCHANGED exc
       \/ \E e \in inputs.errors :
              /\ calls' = [calls EXCEPT
                             ![r] = Append(@, Call("upload", file_mime_type[r], e))]
              /\ Raise(r, e)
              /\ UNCHANGED <<file_owner, service_files, uploaded_file>>
    /\ UNCHANGED <<GEMINI_CONFIGURED, file_mime_type, model_reply, response_text,
                   match_score, suggestions, pending, outcome>>

\* client.files.upload (lines 67-70): the service stores the file under a new
\* name and the call returns its handle, or the call raises and nothing is
\* assigned to uploaded_file.
Upload(r, inputs) ==
    /\ pc[r] = "upload"
    /\ \/ LET name == Len(file_owner) + 1
          IN  /\ calls' = [calls EXCEPT
                             ![r] = Append(@, Call("upload", file_mime_type[r], NoExc))]
              /\ file_owner' = Append(file_owner, r)
              /\ service_files' = service_files \cup {name}
              /\ uploaded_file' = [uploaded_file EXCEPT ![r] = PyFile(name)]
              /\ pc' = [pc EXCEPT ![r] = "contents"]
              /\ UNCHANGED exc
       \/ \E e \in inputs.errors :
              /\ calls' = [calls EXCEPT
                             ![r] = Append(@, Call("upload", file_mime_type[r], e))]
              /\ Raise(r, e)
              /\ UNCHANGED <<file_owner, service_files, uploaded_file>>
    /\ UNCHANGED <<GEMINI_CONFIGURED, file_mime_type, model_reply, response_text,
                   match_score, suggestions, pending, outcome>>

\* The instruction, the prompt and the parts of the request are built
\* (lines 73-95): the library's constructors return, or one of them raises
\* before generate_content is called.
BuildContents(r, inputs) ==
    /\ pc[r] = "contents"
    /\ \/ /\ pc' = [pc EXCEPT ![r] = "generate"]
          /\ UNCHANGED exc
       \/ \E e \in inputs.errors : Raise(r, e)
    /\ UNCHANGED <<GEMINI_CONFIGURED, file_mime_type, uploaded_file, model_reply,
                   response_text, match_score, suggestions, pending, outcome, calls,
                   file_owner, service_files>>

\* client.models.generate_content (lines 89-100) with the uploaded file: the
\* model replies, or the call raises.
Generate(r, inputs) ==
    /\ pc[r] = "generate"
    /\ \/ \E reply \in inputs.replies :
              /\ calls' = [calls EXCEPT
                             ![r] = Append(@, Call("generate", uploaded_file[r], NoExc))]
              /\ model_reply' = [model_reply EXCEPT ![r] = reply]
              /\ response_text' = [response_text EXCEPT ![r] = RenderReply(reply)]
              /\ pc' = [pc EXCEPT ![r] = "parse"]
              /\ UNCHANGED exc
       \/ \E e \in inputs.errors :
              /\ calls' = [calls EXCEPT
                             ![r] = Append(@, Call("generate", uploaded_file[r], e))]
              /\ Raise(r, e)
              /\ UNCHANGED <<model_reply, response_text>>
    /\ UNCHANGED <<GEMINI_CONFIGURED, file_mime_type, uploaded_file, match_score,
                   suggestions, pending, outcome, file_owner, service_files>>

\* Step 6: the inner try/except (lines 103-116).
Parse(r) ==
    /\ pc[r] = "parse"
    /\ \E result \in {ParseResponse(response_text[r])} :
          IF result.raised
          THEN /\ Raise(r, result.exc)
               /\ UNCHANGED <<match_score, suggestions>>
          ELSE /\ match_score' = [match_score EXCEPT ![r] = result.match_score]
               /\ suggestions' = [suggestions EXCEPT ![r] = result.suggestions]
               /\ pc' = [pc EXCEPT ![r] = "return"]
               /\ UNCHANGED exc
    /\ UNCHANGED <<GEMINI_CONFIGURED, file_mime_type, uploaded_file, model_reply,
                   response_text, pending, outcome, calls, file_owner, service_files>>

\* Step 7: the return statement (lines 119-123); the finally block runs before
\* the value reaches the caller.
Return(r) ==
    /\ pc[r] = "return"
    /\ pending' = [pending EXCEPT ![r] = Returned(match_score[r], suggestions[r])]
    /\ pc' = [pc EXCEPT ![r] = "finally"]
    /\ UNCHANGED <<GEMINI_CONFIGURED, file_mime_type, uploaded_file, model_reply,
                   response_text, match_score, suggestions, exc, outcome, calls,
                   file_owner, service_files>>

\* Except with a detail that does not embed str(e).
ExceptWithoutErrorText(r) ==
    /\ pc[r] = "except"
    /\ pending' = [pending EXCEPT
                     ![r] = HTTPException(HTTP_SERVER_ERROR, SERVICE_ERROR_PREFIX)]
    /\ pc' = [pc EXCEPT ![r] = "finally"]
    /\ UNCHANGED <<GEMINI_CONFIGURED, file_mime_type, uploaded_file, model_reply,
                   response_text, match_score, suggestions, exc, outcome, calls,
                   file_owner, service_files>>

\* `except Exception as e` (lines 125-131): an HTTPException carrying str(e) is
\* raised; the finally block runs before it leaves the function.
Except(r) ==
    /\ pc[r] = "except"
    /\ pending' = [pending EXCEPT
                     ![r] = HTTPException(HTTP_SERVER_ERROR,
                                          SERVICE_ERROR_PREFIX \o exc[r].msg)]
    /\ pc' = [pc EXCEPT ![r] = "finally"]
    /\ UNCHANGED <<GEMINI_CONFIGURED, file_mime_type, uploaded_file, model_reply,
                   response_text, match_score, suggestions, exc, outcome, calls,
                   file_owner, service_files>>

\* Finally with the deletion at the end of the try block instead: it runs on
\* the return path only.
FinallySkipsDeleteOnError(r, inputs) ==
    /\ pc[r] = "finally"
    /\ IF Truthy(uploaded_file[r]) /\ pending[r].kind = "return"
       THEN \/ /\ calls' = [calls EXCEPT
                              ![r] = Append(@, Call("delete", PyInt(uploaded_file[r].v), NoExc))]
               /\ service_files' = service_files \ {uploaded_file[r].v}
               /\ outcome' = [outcome EXCEPT ![r] = pending[r]]
            \/ \E e \in inputs.errors :
               /\ calls' = [calls EXCEPT
                              ![r] = Append(@, Call("delete", PyInt(uploaded_file[r].v), e))]
               /\ outcome' = [outcome EXCEPT ![r] = Unhandled(e)]
               /\ UNCHANGED service_files
       ELSE /\ outcome' = [outcome EXCEPT ![r] = pending[r]]
            /\ UNCHANGED <<calls, service_files>>
    /\ pc' = [pc EXCEPT ![r] = "done"]
    /\ UNCHANGED <<GEMINI_CONFIGURED, file_mime_type, uploaded_file, model_reply,
                   response_text, match_score, suggestions, exc, pending, file_owner>>

\* Finally with the deletion wrapped in its own try/except: a failed deletion
\* is swallowed and the pending result leaves the function.
FinallyCatchesDeleteError(r, inputs) ==
    /\ pc[r] = "finally"
    /\ IF Truthy(uploaded_file[r])
       THEN \/ /\ calls' = [calls EXCEPT
                              ![r] = Append(@, Call("delete", PyInt(uploaded_file[r].v), NoExc))]
               /\ service_files' = service_files \ {uploaded_file[r].v}
               /\ outcome' = [outcome EXCEPT ![r] = pending[r]]
            \/ \E e \in inputs.errors :
               /\ calls' = [calls EXCEPT
                              ![r] = Append(@, Call("delete", PyInt(uploaded_file[r].v), e))]
               /\ outcome' = [outcome EXCEPT ![r] = pending[r]]
               /\ UNCHANGED service_files
       ELSE /\ outcome' = [outcome EXCEPT ![r] = pending[r]]
            /\ UNCHANGED <<calls, service_files>>
    /\ pc' = [pc EXCEPT ![r] = "done"]
    /\ UNCHANGED <<GEMINI_CONFIGURED, file_mime_type, uploaded_file, model_reply,
                   response_text, match_score, suggestions, exc, pending, file_owner>>

\* The finally block (lines 132-136): when uploaded_file is set,
\* client.files.delete is called once; if it returns, the pending return value
\* or exception leaves the function, and if it raises, that exception leaves
\* the function instead.
Finally(r, inputs) ==
    /\ pc[r] = "finally"
    /\ IF Truthy(uploaded_file[r])
       THEN \/ /\ calls' = [calls EXCEPT
                              ![r] = Append(@, Call("delete", PyInt(uploaded_file[r].v), NoExc))]
               /\ service_files' = service_files \ {uploaded_file[r].v}
               /\ outcome' = [outcome EXCEPT ![r] = pending[r]]
            \/ \E e \in inputs.errors :
               /\ calls' = [calls EXCEPT
                              ![r] = Append(@, Call("delete", PyInt(uploaded_file[r].v), e))]
               /\ outcome' = [outcome EXCEPT ![r] = Unhandled(e)]
               /\ UNCHANGED service_files
       ELSE /\ outcome' = [outcome EXCEPT ![r] = pending[r]]
            /\ UNCHANGED <<calls, service_files>>
    /\ pc' = [pc EXCEPT ![r] = "done"]
    /\ UNCHANGED <<GEMINI_CONFIGURED, file_mime_type, uploaded_file, model_reply,
                   response_text, match_score, suggestions, exc, pending, file_owner>>

\* One step of the handler invocation for request r.
Handler(r, inputs) ==
    \/ Receive(r, inputs)
    \/ Validate(r)
    \/ CheckConfigured(r)
    \/ ReadFile(r, inputs)
    \/ Upload(r, inputs)
    \/ BuildContents(r, inputs)
    \/ Generate(r, inputs)
    \/ Parse(r)
    \/ Return(r)
    \/ Except(r)
    \/ Finally(r, inputs)

\* One request, every input.
Next == Handler(1, AllInputs)

Spec == Init /\ [][Next]_vars

\* Several requests in flight, their steps interleaved in any order.
NextConcurrent == \E r \in Requests : Handler(r, SampleInputs)

SpecConcurrent == Init /\ [][NextConcurrent]_vars

\* ================================================================ claims
\* Positions in request r's call log of the calls of one operation.
CallsOp(r, op) == {k \in 1..Len(calls[r]) : calls[r][k].op = op}

\* The operations of request r's call log, in order.
Ops(r) == [k \in 1..Len(calls[r]) |-> calls[r][k].op]

\* Request r's call of operation op raised.
CallRaised(r, op) == \E k \in CallsOp(r, op) : calls[r][k].error # NoExc

\* The files on the AI service that request r's upload created.
FilesOf(r) == {n \in 1..Len(file_owner) : file_owner[n] = r}

\* Request r's delete calls that name file n.
DeletesOf(r, n) == {k \in CallsOp(r, "delete") : calls[r][k].arg = PyInt(n)}

\* The handler invocation for r has ended.
Done(r) == pc[r] = "done"

\* r ended by returning a result whose matchScore is the integer n.
ReturnedScore(r, n) ==
    /\ outcome[r].kind = "return"
    /\ outcome[r].value.success = TRUE
    /\ outcome[r].value.matchScore.t = "int"
    /\ outcome[r].value.matchScore.v = n

\* r ended by returning the degraded result for raw model text raw.
ReturnedDegraded(r, raw) ==
    /\ ReturnedScore(r, PARSE_FAILURE_SCORE)
    /\ outcome[r].value.suggestions.t = "str"
    /\ outcome[r].value.suggestions.v
         = PARSE_ERROR_MARKER \o SliceTo(raw, RAW_EXCERPT_LEN) \o ELLIPSIS

\* r ended with an HTTPException whose status is in the class of hundreds h.
EndedWithStatusClass(r, h) ==
    /\ outcome[r].kind = "HTTPException"
    /\ outcome[r].value.status_code \in (h * 100)..(h * 100 + 99)

\* ------------------------------------------------------------------- C1
\* C1: in live mode, a request whose upload returned a handle issues exactly
\* one deletion call for that handle before the handler returns, on every exit
\* path (success, degraded, exception ending in 500); a request for which no
\* handle was created issues no deletion call.
C1_DeletedExactlyOnce ==
    \A r \in Requests :
        /\ \A k \in CallsOp(r, "delete") : calls[r][k].arg.v \in FilesOf(r)
        /\ \A n \in FilesOf(r) : Cardinality(DeletesOf(r, n)) <= 1
        /\ Done(r) => \A n \in FilesOf(r) : Cardinality(DeletesOf(r, n)) = 1

\* Two requests have ended in live mode, each having created a handle and
\* deleted it: one on the exception path, one on the degraded return path.
C1_Witness ==
    /\ GEMINI_CONFIGURED
    /\ \E r1, r2 \in Requests :
          /\ Done(r1) /\ Done(r2)
          /\ FilesOf(r1) # {} /\ FilesOf(r2) # {}
          /\ EndedWithStatusClass(r1, 5) /\ CallsOp(r1, "delete") # {}
          /\ ReturnedScore(r2, PARSE_FAILURE_SCORE) /\ CallsOp(r2, "delete") # {}

\* ------------------------------------------------------------------- C2
\* C2 (as claimed): a request whose declared media type starts with neither
\* supported prefix ends with a 400-class error and makes no AI service call;
\* a request without a declared media type is never rejected with 400.
C2_UnsupportedTypeRejected ==
    \A r \in Requests :
        /\ ( /\ pc[r] \notin {"idle", "validate"}
             /\ file_mime_type[r].t = "str"
             /\ ~StartsWith(file_mime_type[r].v, PDF_PREFIX)
             /\ ~StartsWith(file_mime_type[r].v, DOCX_PREFIX) )
           => (Done(r) /\ EndedWithStatusClass(r, 4) /\ calls[r] = << >>)
        /\ (Done(r) /\ file_mime_type[r].t = "NoneType") => ~EndedWithStatusClass(r, 4)

\* ------------------------------------------------------------------- C3
\* The request's upload or generate call raised error text msg.
ServiceCallRaised(r, op, msg) ==
    \E k \in CallsOp(r, op) : calls[r][k].error # NoExc /\ calls[r][k].error.msg = msg

\* r ended with a 500-class HTTPException whose detail contains msg.
EndedWith500Containing(r, msg) ==
    /\ EndedWithStatusClass(r, 5)
    /\ Contains(outcome[r].value.detail, msg)

\* The deletion calls a failed upload (none) or a failed generation (one) leave.
DeletionAfterFailure(r, op) ==
    Cardinality(CallsOp(r, "delete")) = (IF op = "generate" THEN 1 ELSE 0)

\* C3 (as claimed): when the upload or the generation call raises, the handler
\* ends with a 500-class response whose detail contains the error's text; after
\* a failed generation the deletion call is still issued, after a failed upload
\* none is.
C3_ServiceErrorIs500 ==
    \A r \in Requests : \A op \in {"upload", "generate"} : \A e \in AllErrors :
        (Done(r) /\ ServiceCallRaised(r, op, e.msg))
        => (EndedWith500Containing(r, e.msg) /\ DeletionAfterFailure(r, op))

\* C3 (amended): the same, the 500-class response being promised only when the
\* deletion call does not itself raise.
C3_ServiceErrorIs500UnlessDeleteRaises ==
    \A r \in Requests : \A op \in {"upload", "generate"} : \A e \in AllErrors :
        (Done(r) /\ ServiceCallRaised(r, op, e.msg))
        => /\ DeletionAfterFailure(r, op)
           /\ ~CallRaised(r, "delete") => EndedWith500Containing(r, e.msg)

\* A request whose generation call raised has ended with the 500 response,
\* after a deletion call that returned.
C3_Witness ==
    \E e \in AllErrors :
        /\ Done(1) /\ ServiceCallRaised(1, "generate", e.msg)
        /\ Ops(1) = <<"upload", "generate", "delete">>
        /\ ~CallRaised(1, "delete")
        /\ EndedWith500Containing(1, e.msg)

\* ------------------------------------------------------------------- C4
\* C4 (as claimed): when the model's text is not valid JSON, the handler never
\* raises nor answers 5xx: it returns success, matchScore 50 and the parse-error
\* marker followed by the first 200 characters of the raw text.
C4_NotJsonDegrades ==
    \A r \in Requests :
        (Done(r) /\ model_reply[r].kind = "text")
        => ReturnedDegraded(r, RenderReply(model_reply[r]).v)

\* C4 (amended): the same, provided the deletion call does not raise.
C4_NotJsonDegradesUnlessDeleteRaises ==
    \A r \in Requests :
        (Done(r) /\ model_reply[r].kind = "text" /\ ~CallRaised(r, "delete"))
        => ReturnedDegraded(r, RenderReply(model_reply[r]).v)

\* A request has ended with the degraded result for a text that is not JSON and
\* is longer than the excerpt.
C4_Witness ==
    /\ Done(1) /\ model_reply[1].kind = "text"
    /\ Len(RenderReply(model_reply[1]).v) > RAW_EXCERPT_LEN
    /\ ReturnedDegraded(1, RenderReply(model_reply[1]).v)

\* ------------------------------------------------------------------- C5
\* The JSON value x is not an object, or its matchScore is not a JSON integer
\* in [0,100].
InvalidShape(x) ==
    \/ x.t # "dict"
    \/ LET score == DictGet(x, KEY_MATCH_SCORE, PyInt(DEFAULT_SCORE))
       IN  score.t # "int" \/ score.v < MIN_SCORE \/ score.v > MAX_SCORE

\* C5 (as claimed): a reply that parses as JSON but is not an object, or whose
\* matchScore is not an integer in [0,100], is treated as a parse failure:
\* success with matchScore 50 and the marker, not a 5xx.  (Stated for requests
\* that declare a supported media type and whose deletion call returns.)
C5_InvalidShapeDegrades ==
    \A r \in Requests :
        ( /\ Done(r) /\ model_reply[r].kind = "json"
          /\ file_mime_type[r] \in SUPPORTED_TYPES
          /\ InvalidShape(model_reply[r].value)
          /\ ~CallRaised(r, "delete") )
        => ReturnedDegraded(r, RenderReply(model_reply[r]).v)

\* ------------------------------------------------------------------- C6
\* C6 (as claimed): every result the handler returns has a matchScore that is
\* an integer in [0,100]; a value of another type (a JSON boolean included) is
\* never passed through.  (Stated for requests that declare a supported media
\* type.)
C6_ScoreAlwaysInRange ==
    \A r \in Requests :
        (outcome[r].kind = "return" /\ file_mime_type[r] \in SUPPORTED_TYPES)
        => /\ outcome[r].value.matchScore.t = "int"
           /\ outcome[r].value.matchScore.v \in MIN_SCORE..MAX_SCORE

\* ------------------------------------------------------------------- C7
\* The JSON value x is the analysis object asked for: an integer matchScore in
\* [0,100] and a suggestions string.
WellFormed(x) ==
    /\ x.t = "dict" /\ Len(x.v) = 2
    /\ x.v[1][1] = KEY_MATCH_SCORE /\ x.v[2][1] = KEY_SUGGESTIONS
    /\ x.v[1][2].t = "int" /\ x.v[1][2].v \in MIN_SCORE..MAX_SCORE
    /\ x.v[2][2].t = "str"

\* C7 (as claimed): a well-formed analysis object, bare or wrapped in markdown
\* code fences, is returned as it is: success with exactly that matchScore and
\* exactly that suggestions string.  (Stated for requests that declare a
\* supported media type and whose deletion call returns.)
C7_WellFormedReplyReturned ==
    \A r \in Requests :
        ( /\ Done(r) /\ model_reply[r].kind = "json"
          /\ file_mime_type[r] \in SUPPORTED_TYPES
          /\ WellFormed(model_reply[r].value)
          /\ ~CallRaised(r, "delete") )
        => /\ ReturnedScore(r, model_reply[r].value.v[1][2].v)
           /\ outcome[r].value.suggestions = model_reply[r].value.v[2][2]

\* ------------------------------------------------------------------- C8
\* In mock mode no AI service call is made and every request that is not
\* rejected for its media type returns the fixed mock result.
MockModeIsFixed ==
    ~GEMINI_CONFIGURED =>
        \A r \in Requests :
            /\ calls[r] = << >>
            /\ Done(r) =>
                 \/ EndedWithStatusClass(r, 4)
                 \/ /\ ReturnedScore(r, MOCK_SCORE)
                    /\ outcome[r].value.suggestions.v = MOCK_SUGGESTIONS
                    /\ Contains(outcome[r].value.suggestions.v, MOCK_MARKER)
            /\ (Done(r) /\ file_mime_type[r] \in SUPPORTED_TYPES \cup {PyNone})
                 => ReturnedScore(r, MOCK_SCORE)

\* C8: when the AI client failed to initialize, every request that passes the
\* media type check returns the same mock result (matchScore 75, the mock-data
\* marker) with no upload, generation or deletion call, and the live/mock mode
\* never changes after startup.
C8_MockModeForLife ==
    /\ []MockModeIsFixed
    /\ [][GEMINI_CONFIGURED' = GEMINI_CONFIGURED]_vars

\* In mock mode, every request of the run has been answered with the mock result.
C8_Witness ==
    /\ ~GEMINI_CONFIGURED
    /\ \A r \in Requests : Done(r) /\ ReturnedScore(r, MOCK_SCORE)

\* ------------------------------------------------------------------- C9
\* C9: each request issues at most one upload, one generation and one deletion
\* call, in that order and without retry: generation only after its own upload
\* returned a handle, deletion last; and under any interleaving of requests the
\* handle it passes to generation and to deletion is the one its own upload
\* created.
C9_OwnCallsInOrder ==
    \A r \in Requests :
        /\ Ops(r) \in {<< >>, <<"upload">>, <<"upload", "generate">>,
                       <<"upload", "delete">>, <<"upload", "generate", "delete">>}
        /\ Len(calls[r]) > 1 => calls[r][1].error = NoExc
        /\ Len(calls[r]) > 1 => Cardinality(FilesOf(r)) = 1
        /\ \A k \in CallsOp(r, "generate") :
              calls[r][k].arg.t = "File" /\ calls[r][k].arg.v \in FilesOf(r)
        /\ \A k \in CallsOp(r, "delete") : calls[r][k].arg.v \in FilesOf(r)
        /\ Cardinality(FilesOf(r)) <= 1

\* Two requests overlapped: the one that uploaded second has made all three of
\* its calls while the file of the one that uploaded first is still held, its
\* generation call made.
C9_Witness ==
    \E r1, r2 \in Requests :
        /\ r1 # r2
        /\ Len(file_owner) >= 2 /\ file_owner[1] = r1 /\ file_owner[2] = r2
        /\ Ops(r2) = <<"upload", "generate", "delete">>
        /\ Ops(r1) = <<"upload", "generate">>
        /\ 1 \in service_files

\* ------------------------------------------------------------------ C10
\* C10: when the deletion call raises, the failure is not caught: the handler
\* ends with that error instead of the outcome it had computed (the result on
\* the return path, the 500 HTTPException on the exception path), and the
\* deletion is not attempted again.
C10_DeleteFailurePropagates ==
    \A r \in Requests : \A k \in CallsOp(r, "delete") :
        calls[r][k].error # NoExc
        => /\ Done(r)
           /\ outcome[r].kind = "unhandled"
           /\ outcome[r].value = calls[r][k].error
           /\ pending[r].kind \in {"return", "HTTPException"}
           /\ Cardinality(CallsOp(r, "delete")) = 1

\* The deletion call raised for two requests: one had a result to return, the
\* other a 500 HTTPException to raise; both ended with the unhandled error.
C10_Witness ==
    \E r1, r2 \in Requests :
        /\ CallRaised(r1, "delete") /\ pending[r1].kind = "return"
        /\ outcome[r1].kind = "unhandled"
        /\ CallRaised(r2, "delete") /\ pending[r2].kind = "HTTPException"
        /\ outcome[r2].kind = "unhandled"

====
